---- MODULE Spec2Model ----
(***************************************************************************)
(* The chat frontend of public/chat.js: the conversation state             *)
(* (chatHistory, isProcessing), the message list of the page, and the      *)
(* asynchronous function sendMessage with its suspension points (the       *)
(* awaited fetch and every awaited reader.read()).                         *)
(*                                                                         *)
(* Texts are sequences of tokens.  A token is one character (a             *)
(* one-character string; "U+00E9" and the replacement character "U+FFFD"   *)
(* for the two non-ASCII characters of the model), or a whole literal of   *)
(* the source that the code only ever copies (the greeting, the fallback   *)
(* text, "[Image attached]").  The bytes of a response body are the ASCII  *)
(* characters themselves plus the two UTF-8 bytes "0xC3" and "0xA9"        *)
(* (0xC3 0xA9 encodes U+00E9).                                             *)
(***************************************************************************)
EXTENDS Integers, Sequences, FiniteSets, TLC

VARIABLES
    chatHistory,    \* chat.js:16  the Conversation: sequence of [role, content]
    isProcessing,   \* chat.js:23  the in-flight flag
    disabled,       \* userInput/sendButton/imageInput .disabled
    typingVisible,  \* typingIndicator has class "visible"
    display,        \* children of #chat-messages: sequence of [role, text]
    requests,       \* every fetch("/api/chat") issued so far, in order
    calls,          \* the suspended invocations of sendMessage, with their locals
    event           \* the last step of sendMessage, and the state it started from

vars == <<chatHistory, isProcessing, disabled, typingVisible, display, requests,
          calls, event>>

-----------------------------------------------------------------------------
(* Bounds *)

\* accepted submissions (requests issued) in one session
MaxCalls == 2

-----------------------------------------------------------------------------
(* Literals of the source, each one token *)

Greeting ==
    <<"Hello! I'm an LLM chat app powered by Cloudflare Workers AI. How can I help you today?">>

Fallback == <<"Sorry, there was an error processing your request.">>

ImageAttached == <<"[Image attached]">>

-----------------------------------------------------------------------------
(* String.prototype.trim, TextDecoder, String.prototype.split, JSON.parse *)

WhiteSpace == {" ", "\t", "\n", "\r", "\f"}

RECURSIVE trimStart(_)
trimStart(s) ==
    IF s # <<>> /\ Head(s) \in WhiteSpace THEN trimStart(Tail(s)) ELSE s

RECURSIVE trimEnd(_)
trimEnd(s) ==
    IF s # <<>> /\ s[Len(s)] \in WhiteSpace
    THEN trimEnd(SubSeq(s, 1, Len(s) - 1))
    ELSE s

\* trim that leaves the value as it is
trimNothing(s) == s

\* userInput.value.trim()
trim(s) == trimEnd(trimStart(s))

LeadByte == "0xC3"
ContinuationByte == "0xA9"
Replacement == "U+FFFD"
EAcute == "U+00E9"

\* One byte through a UTF-8 TextDecoder (not fatal) whose internal buffer
\* holds `pending` (empty, or a lead byte that waits for its continuation
\* byte): the text put out and the buffer afterwards.  A lead byte that is
\* not continued, and a continuation byte that continues nothing, are
\* replaced by U+FFFD.
decodeByte(pending, b) ==
    IF pending # <<>>
    THEN IF b = ContinuationByte
         THEN [text |-> <<EAcute>>, pending |-> <<>>]
         ELSE IF b = LeadByte
         THEN [text |-> <<Replacement>>, pending |-> <<b>>]
         ELSE [text |-> <<Replacement, b>>, pending |-> <<>>]
    ELSE IF b = LeadByte
         THEN [text |-> <<>>, pending |-> <<b>>]
         ELSE IF b = ContinuationByte
         THEN [text |-> <<Replacement>>, pending |-> <<>>]
         ELSE [text |-> <<b>>, pending |-> <<>>]

\* decoder.decode(value, { stream: true }): the bytes of value go through the
\* decoder in order (first half, then second half); a lead byte at the end of
\* value stays in the buffer for the next call.
RECURSIVE decode(_, _)
decode(pending, value) ==
    IF value = <<>>
    THEN [text |-> <<>>, pending |-> pending]
    ELSE IF Len(value) = 1
    THEN decodeByte(pending, value[1])
    ELSE LET h == Len(value) \div 2
             first == decode(pending, SubSeq(value, 1, h))
             second == decode(first.pending, SubSeq(value, h + 1, Len(value)))
         IN  [text |-> first.text \o second.text, pending |-> second.pending]

\* chunk.split("\n"): k newlines give k + 1 lines, the empty ones included
RECURSIVE split(_)
split(chunk) ==
    IF \A i \in 1..Len(chunk) : chunk[i] # "\n"
    THEN <<chunk>>
    ELSE LET i == CHOOSE j \in 1..Len(chunk) :
                      /\ chunk[j] = "\n"
                      /\ \A k \in 1..(j - 1) : chunk[k] # "\n"
         IN  <<SubSeq(chunk, 1, i - 1)>> \o split(SubSeq(chunk, i + 1, Len(chunk)))

RecordPrefix == <<"{","\"","r","e","s","p","o","n","s","e","\"",":","\"">>
RecordSuffix == <<"\"","}">>
NullLiteral == <<"n","u","l","l">>
EmptyObject == <<"{","}">>

\* a run of characters that may stand unescaped between two quotes
IsStringBody(s) ==
    \A i \in 1..Len(s) : s[i] \notin {"\"", "\\", "\n", "\t", "\r", "\f"}

StartsWith(s, p) == Len(s) >= Len(p) /\ SubSeq(s, 1, Len(p)) = p
EndsWith(s, p) == Len(s) >= Len(p) /\ SubSeq(s, Len(s) - Len(p) + 1, Len(s)) = p

\* the white space JSON.parse skips around a value
JSONWhiteSpace == {" ", "\t", "\n", "\r"}

RECURSIVE skipWhiteSpace(_)
skipWhiteSpace(s) ==
    IF s # <<>> /\ Head(s) \in JSONWhiteSpace
    THEN skipWhiteSpace(Tail(s))
    ELSE IF s # <<>> /\ s[Len(s)] \in JSONWhiteSpace
    THEN skipWhiteSpace(SubSeq(s, 1, Len(s) - 1))
    ELSE s

\* JSON.parse(line) on the JSON texts that can be cut out of the response
\* bodies of this model (an object with the one member "response", the
\* empty object, null, a string): the value parsed, or the SyntaxError thrown.
JSONparse(line) ==
    LET t == skipWhiteSpace(line)
        inner == SubSeq(t, Len(RecordPrefix) + 1, Len(t) - Len(RecordSuffix))
    IN  IF /\ Len(t) >= Len(RecordPrefix) + Len(RecordSuffix)
           /\ StartsWith(t, RecordPrefix)
           /\ EndsWith(t, RecordSuffix)
           /\ IsStringBody(inner)
        THEN [type |-> "object", response |-> inner, hasResponse |-> TRUE]
        ELSE IF t = EmptyObject
        THEN [type |-> "object", response |-> <<>>, hasResponse |-> FALSE]
        ELSE IF t = NullLiteral
        THEN [type |-> "null", response |-> <<>>, hasResponse |-> FALSE]
        ELSE IF Len(t) >= 2 /\ t[1] = "\"" /\ t[Len(t)] = "\""
                /\ IsStringBody(SubSeq(t, 2, Len(t) - 1))
        THEN [type |-> "string", response |-> <<>>, hasResponse |-> FALSE]
        ELSE [type |-> "SyntaxError", response |-> <<>>, hasResponse |-> FALSE]

-----------------------------------------------------------------------------
(* The stream loop of sendMessage, chat.js:124-152 *)

\* The locals of the loop: responseText, the textContent of the <p> of
\* assistantMessageEl, and the exception that left the per-line try/catch
\* ("none" when none did).  updates lists every value textContent was given,
\* parsed every line JSON.parse returned a value for, both in order.
NewAssembler ==
    [responseText |-> <<>>, textContent |-> <<>>, updates |-> <<>>,
     parsed |-> <<>>, thrown |-> "none"]

\* chat.js:139  if (jsonData.response)
Truthy(jsonData) == jsonData.hasResponse /\ jsonData.response # <<>>

\* AppendDelta that puts the delta in front of the text
PrependDelta(st, delta) ==
    LET text == delta \o st.responseText
    IN  [st EXCEPT !.responseText = text,
                   !.textContent = text,
                   !.updates = Append(@, text)]

\* AppendDelta that keeps the delta from the page
AppendDeltaUnshown(st, delta) ==
    [st EXCEPT !.responseText = @ \o delta]

\* chat.js:141-142  responseText += jsonData.response; textContent = responseText
AppendDelta(st, delta) ==
    LET text == st.responseText \o delta
    IN  [st EXCEPT !.responseText = text,
                   !.textContent = text,
                   !.updates = Append(@, text)]

\* chat.js:138-146  the body of the try: null.response throws a TypeError
TryLine(st, line) ==
    LET jsonData == JSONparse(line)
    IN  IF jsonData.type = "SyntaxError"
        THEN [st EXCEPT !.thrown = "SyntaxError"]
        ELSE LET got == [st EXCEPT !.parsed = Append(@, line)]
             IN  IF jsonData.type = "null"
                 THEN [got EXCEPT !.thrown = "TypeError"]
                 ELSE IF Truthy(jsonData)
                      THEN AppendDelta(got, jsonData.response)
                      ELSE got

\* Catches that lets everything but a SyntaxError through
CatchesSyntaxErrorOnly(e) == e = "SyntaxError"

\* chat.js:147  catch (e): every exception is caught and logged
Catches(e) == e \in {"SyntaxError", "TypeError"}

\* chat.js:137-150  one iteration of  for (const line of lines)
ProcessLine(st, line) ==
    LET r == TryLine(st, line)
    IN  IF r.thrown # "none" /\ Catches(r.thrown)
        THEN [r EXCEPT !.thrown = "none"]
        ELSE r

\* chat.js:136-151  the for loop; an exception that leaves an iteration ends it
RECURSIVE ProcessLines(_, _)
ProcessLines(st, lines) ==
    IF lines = <<>> \/ st.thrown # "none"
    THEN st
    ELSE ProcessLines(ProcessLine(st, Head(lines)), Tail(lines))

-----------------------------------------------------------------------------------------------------------------------------------------------------
(* sendMessage, chat.js:49-173 *)

Message(role, content) == [role |-> role, content |-> content]

\* the tokens of a text that an HTML parser reads as tags
Markup == {"<b>"}

IsText(token) == token \notin Markup

\* chat.js:181  messageEl.innerHTML = `<p>${content}</p>`: content is parsed
\* as HTML, and the text of the element is what is left of it without the
\* tags
innerHTML(content) == SelectSeq(content, IsText)

\* chat.js:178-186  addMessageToChat(role, content)
addMessageToChat(dom, role, content) ==
    Append(dom, [role |-> role, text |-> innerHTML(content)])

\* Guard without the test of the flag
GuardWithoutFlag(message, file, processing) == message = <<>> /\ ~file

\* chat.js:54  the condition of the early return
Guard(message, file, processing) == (message = <<>> /\ ~file) \/ processing

\* userMsgContent that puts the marker on the line of the text
userMsgContentOneLine(message, file) ==
    IF file THEN message \o ImageAttached ELSE message

\* chat.js:63-66
userMsgContent(message, file) ==
    IF file
    THEN IF message # <<>>
         THEN message \o <<"\n">> \o ImageAttached
         ELSE ImageAttached
    ELSE message

\* PushUser that keeps a window of the last Messages, dropping the oldest
PushUserTrimming(history, message) ==
    Append(IF Len(history) > 2 THEN Tail(history) ELSE history,
           [role |-> "user", content |-> message])

\* chat.js:78
PushUser(history, message) == Append(history, Message("user", message))

\* PushAssistant that pushes a response only when it has text
PushAssistantIfText(history, responseText) ==
    IF responseText = <<>>
    THEN history
    ELSE Append(history, [role |-> "assistant", content |-> responseText])

\* chat.js:155
PushAssistant(history, responseText) ==
    Append(history, Message("assistant", responseText))

\* CatchBlock that shows no message
CatchBlockSilent(dom, history, responseText) ==
    [display |-> dom, chatHistory |-> history]

\* CatchBlock that pushes the text assembled so far to chatHistory
CatchBlockCommits(dom, history, responseText) ==
    [display |-> Append(dom, [role |-> "assistant", text |-> Fallback]),
     chatHistory |-> IF responseText = <<>>
                     THEN history
                     ELSE Append(history, [role |-> "assistant",
                                           content |-> responseText])]

\* chat.js:156-161  the catch block: what it leaves in the page and in chatHistory
CatchBlock(dom, history, responseText) ==
    [display |-> addMessageToChat(dom, "assistant", Fallback),
     chatHistory |-> history]

\* FinallyBlock that re-enables the controls and leaves the flag set
FinallyBlockKeepsFlag ==
    [isProcessing |-> TRUE, disabled |-> FALSE, typingVisible |-> FALSE]

\* chat.js:162-172  the finally block
FinallyBlock ==
    [isProcessing |-> FALSE, disabled |-> FALSE, typingVisible |-> FALSE]

\* chat.js:115  response.ok
ResponseOk(status) == status \in 200..299

\* Request that sends the newest Message only
RequestLastOnly(history, file) ==
    [encoding |-> IF file THEN "multipart" ELSE "json",
     parts |-> IF file THEN {"messages", "image"} ELSE {"messages"},
     messages |-> <<history[Len(history)]>>]

\* Request that always sends the JSON document, dropping the file
RequestAlwaysJson(history, file) ==
    [encoding |-> "json", parts |-> {"messages"}, messages |-> history]

\* chat.js:92-112  the request: multipart with an image, JSON without
Request(history, file) ==
    [encoding |-> IF file THEN "multipart" ELSE "json",
     parts |-> IF file THEN {"messages", "image"} ELSE {"messages"},
     messages |-> history]

Remove(s, i) == SubSeq(s, 1, i - 1) \o SubSeq(s, i + 1, Len(s))

\* The last step of sendMessage: its kind; the trimmed text and the file the
\* invocation read; and the state its invocation started from (isProcessing,
\* chatHistory, the page, the number of requests issued); responseText as the
\* step left it.
Step(kind, c, st) ==
    [kind |-> kind, value |-> c.value, message |-> c.message, file |-> c.file,
     wasProcessing |-> c.wasProcessing, before |-> c.before,
     domBefore |-> c.domBefore, sent |-> c.sent,
     responseText |-> st.responseText, updates |-> st.updates,
     parsed |-> st.parsed]

\* chat.js:16-23
Init ==
    /\ chatHistory = <<Message("assistant", Greeting)>>
    /\ isProcessing = FALSE
    /\ disabled = FALSE
    /\ typingVisible = FALSE
    /\ display = <<[role |-> "assistant", text |-> Greeting]>>
    /\ requests = <<>>
    /\ calls = <<>>
    /\ event = [kind |-> "load", value |-> <<>>, message |-> <<>>,
                file |-> FALSE, wasProcessing |-> FALSE, before |-> <<>>,
                domBefore |-> <<>>, sent |-> 0, responseText |-> <<>>,
                updates |-> <<>>, parsed |-> <<>>]

\* What the two input controls hold when a handler runs: the value of the
\* textarea and whether a file is chosen.  The controls belong to the page:
\* the user fills them, and a script can while they are disabled.
InputValues ==
    { [value |-> <<" ">>, file |-> FALSE],
      [value |-> <<" ", "h", "i", "\n">>, file |-> FALSE],
      [value |-> <<>>, file |-> TRUE],
      [value |-> <<"<b>", "h", "i">>, file |-> TRUE] }

\* The locals of an invocation of sendMessage that read `in` from the
\* controls, suspended at its fetch, and the state it started from
NewCall(in, processing, history, dom, sent) ==
    [pc |-> "fetch",
     assistantMessageEl |-> Len(dom) + 2,
     value |-> in.value, message |-> trim(in.value), file |-> in.file,
     wasProcessing |-> processing, before |-> history,
     domBefore |-> dom, sent |-> sent,
     body |-> <<>>, pos |-> 0, pending |-> <<>>,
     st |-> NewAssembler]

\* chat.js:62-88  the page after the user's turn and the empty assistant
\* element are added
ShowTurn(dom, message, file) ==
    Append(addMessageToChat(dom, "user", userMsgContent(message, file)),
           [role |-> "assistant", text |-> <<>>])

\* chat.js:33-44 call sendMessage; chat.js:50-112 run without suspension,
\* from the guard to the awaited fetch.
sendMessage(in) ==
    LET message == trim(in.value)
        c == NewCall(in, isProcessing, chatHistory, display, Len(requests))
    IN  /\ event' = Step("sendMessage", c, c.st)
        /\ IF Guard(message, in.file, isProcessing)
           THEN UNCHANGED <<chatHistory, isProcessing, disabled, typingVisible,
                            display, requests, calls>>
           ELSE /\ Len(requests) < MaxCalls
                /\ isProcessing' = TRUE
                /\ disabled' = TRUE
                /\ display' = ShowTurn(display, message, in.file)
                /\ typingVisible' = TRUE
                /\ chatHistory' = PushUser(chatHistory, message)
                /\ requests' = Append(requests, Request(chatHistory', in.file))
                /\ calls' = Append(calls, c)

\* chat.js:156-172  an exception reaches the catch block: the catch and the
\* finally blocks run and the invocation ends.  dom is the page, st the
\* locals of the stream loop, as the exception found them.
Fail(i, kind, dom, st) ==
    LET r == CatchBlock(dom, chatHistory, st.responseText)
    IN  /\ display' = r.display
        /\ chatHistory' = r.chatHistory
        /\ isProcessing' = FinallyBlock.isProcessing
        /\ disabled' = FinallyBlock.disabled
        /\ typingVisible' = FinallyBlock.typingVisible
        /\ calls' = Remove(calls, i)
        /\ event' = Step(kind, calls[i], st)
        /\ UNCHANGED requests

\* the response bodies the backend streams
Record(text) == RecordPrefix \o text \o RecordSuffix
NL == <<"\n">>
BodyEmpty == <<>>
BodyOne == Record(<<"a">>) \o NL
BodyHiThere ==
    Record(<<"H", "i">>) \o NL \o Record(<<" ", "t", "h", "e", "r", "e">>) \o NL
BodyMixed ==
    Record(<<"a">>) \o NL \o EmptyObject \o NL \o NullLiteral \o NL \o <<"x">>
    \o NL \o NL \o Record(<<LeadByte, ContinuationByte>>) \o NL
Bodies == {BodyEmpty, BodyOne}
StreamBodies == {BodyEmpty, BodyOne, BodyHiThere, BodyMixed}

\* the statuses the backend answers with: 200, and the 500 of handleChatRequest
Statuses == {200, 500}

\* chat.js:97/103  the fetch promise rejects
FetchRejects(i) ==
    /\ calls[i].pc = "fetch"
    /\ Fail(i, "fetchRejected", display, calls[i].st)

\* chat.js:97/103, 115-117  the fetch resolves with a non-success status
FetchNotOk(i, status) ==
    /\ calls[i].pc = "fetch"
    /\ ~ResponseOk(status)
    /\ Fail(i, "status", display, calls[i].st)

\* chat.js:97/103, 115-125  the fetch resolves with a success status; the
\* reader and the decoder are made and the first read is awaited
FetchOk(i, status, body) ==
    /\ calls[i].pc = "fetch"
    /\ ResponseOk(status)
    /\ calls' = [calls EXCEPT ![i] = [@ EXCEPT !.pc = "read", !.body = body]]
    /\ event' = Step("read", calls[i], calls[i].st)
    /\ UNCHANGED <<chatHistory, isProcessing, disabled, typingVisible, display,
                   requests>>

\* ProcessChunk that keeps the unfinished last line of what has arrived and
\* parses it when the chunk with its newline has come
ProcessChunkCarrying(c, value) ==
    LET ends == {k \in 1..c.pos : c.body[k] = "\n"}
        from == IF ends = {} THEN 0
                ELSE CHOOSE k \in ends : \A j \in ends : j <= k
        chunk == decode(<<>>, SubSeq(c.body, from + 1, c.pos) \o value)
        lines == split(chunk.text)
    IN  [c EXCEPT !.pos = @ + Len(value),
                  !.pending = chunk.pending,
                  !.st = ProcessLines(@, SubSeq(lines, 1, Len(lines) - 1))]

\* chat.js:132-151  what one chunk does to the locals of the loop: value is
\* decoded, split, and processed line by line
ProcessChunk(c, value) ==
    LET chunk == decode(c.pending, value)
    IN  [c EXCEPT !.pos = @ + Len(value),
                  !.pending = chunk.pending,
                  !.st = ProcessLines(@, split(chunk.text))]

\* chat.js:125-152  a read resolves with the next n bytes of the body, and
\* the next read is awaited
ReadChunk(i, n) ==
    LET c == calls[i]
        next == ProcessChunk(c, SubSeq(c.body, c.pos + 1, c.pos + n))
        dom == [display EXCEPT ![c.assistantMessageEl].text = next.st.textContent]
    IN  /\ c.pc = "read"
        /\ n \in 1..(Len(c.body) - c.pos)
        /\ IF next.st.thrown # "none"
           THEN Fail(i, "lineThrew", dom, next.st)
           ELSE /\ display' = dom
                /\ calls' = [calls EXCEPT ![i] = next]
                /\ event' = Step("chunk", c, next.st)
                /\ UNCHANGED <<chatHistory, isProcessing, disabled, typingVisible,
                               requests>>

\* chat.js:125-129, 154-155, 162-172  a read resolves with done: the loop is
\* left, the response is pushed to chatHistory and the finally block runs
ReadDone(i) ==
    LET c == calls[i]
    IN  /\ c.pc = "read"
        /\ c.pos = Len(c.body)
        /\ chatHistory' = PushAssistant(chatHistory, c.st.responseText)
        /\ isProcessing' = FinallyBlock.isProcessing
        /\ disabled' = FinallyBlock.disabled
        /\ typingVisible' = FinallyBlock.typingVisible
        /\ calls' = Remove(calls, i)
        /\ event' = Step("done", c, c.st)
        /\ UNCHANGED <<display, requests>>

\* chat.js:125  a read rejects (the connection breaks in the middle of the body)
ReadRejects(i) ==
    /\ calls[i].pc = "read"
    /\ Fail(i, "readRejected", display, calls[i].st)

Next ==
    \/ \E in \in InputValues : sendMessage(in)
    \/ \E i \in 1..Len(calls) : FetchRejects(i)
    \/ \E i \in 1..Len(calls), status \in Statuses : FetchNotOk(i, status)
    \/ \E i \in 1..Len(calls), status \in Statuses, body \in Bodies :
           FetchOk(i, status, body)
    \/ \E i \in 1..Len(calls) : \E n \in 1..Len(calls[i].body) : ReadChunk(i, n)
    \/ \E i \in 1..Len(calls) : ReadDone(i)
    \/ \E i \in 1..Len(calls) : ReadRejects(i)

\* a session: any submissions, answered in any way, with short bodies
Spec == Init /\ [][Next]_vars

\* One exchange from the moment its fetch has resolved with a success status:
\* the first submission of a session, and any of the stream bodies cut into
\* chunks in any way.
InitStream ==
    \E in \in InputValues, body \in StreamBodies :
        LET history == <<Message("assistant", Greeting)>>
            dom == <<[role |-> "assistant", text |-> Greeting]>>
            c == NewCall(in, FALSE, history, dom, 0)
        IN  /\ ~Guard(c.message, c.file, FALSE)
            /\ chatHistory = PushUser(history, c.message)
            /\ isProcessing = TRUE
            /\ disabled = TRUE
            /\ typingVisible = TRUE
            /\ display = ShowTurn(dom, c.message, c.file)
            /\ requests = <<Request(chatHistory, c.file)>>
            /\ calls = <<[c EXCEPT !.pc = "read", !.body = body]>>
            /\ event = Step("read", c, c.st)

NextStream ==
    \/ \E i \in 1..Len(calls) : \E n \in 1..Len(calls[i].body) : ReadChunk(i, n)
    \/ \E i \in 1..Len(calls) : ReadDone(i)
    \/ \E i \in 1..Len(calls) : ReadRejects(i)

SpecStream == InitStream /\ [][NextStream]_vars

\* chat.js:97/103, 125  a promise an invocation awaits settles: the fetch
\* resolves or rejects, or a read resolves (with a chunk or with done) or
\* rejects
Settle ==
    \E i \in 1..Len(calls) :
        \/ FetchRejects(i)
        \/ ReadRejects(i)
        \/ ReadDone(i)
        \/ \E status \in Statuses : FetchNotOk(i, status)
        \/ \E status \in Statuses, body \in Bodies : FetchOk(i, status, body)
        \/ \E n \in 1..Len(calls[i].body) : ReadChunk(i, n)

\* a session in which no awaited promise stays pending for ever: the event
\* loop resumes sendMessage as soon as the promise it awaits has settled
SpecLive == Spec /\ WF_vars(Settle)

-----------------------------------------------------------------------------
(* Properties *)

Failures == {"fetchRejected", "status", "readRejected", "lineThrew"}
Terminations == Failures \cup {"done"}

\* the submission read text or a file, and no exchange was running
Accepted(e) == ~e.wasProcessing /\ (e.message # <<>> \/ e.file)

UserTurn(e) == [role |-> "user", content |-> e.message]

\* C1: isProcessing is false in the initial state and false again once an
\* exchange has terminated, whichever way it terminated (stream read to its
\* end, non-success status, rejected fetch, rejected read): the flag is set
\* only while an invocation of sendMessage is suspended.
C1_FlagClearedAfterExchange ==
    /\ event.kind = "load" => ~isProcessing
    /\ event.kind \in Terminations => ~isProcessing
    /\ calls = <<>> => ~isProcessing

\* an exchange ended by a read that rejected after deltas had arrived
C1_Witness ==
    /\ event.kind = "readRejected"
    /\ event.responseText # <<>>
    /\ ~isProcessing

\* C2: at most one invocation of sendMessage is suspended at any time; the
\* flag is set in the step that passes the guard; and a sendMessage called
\* while the flag is set leaves chatHistory and the page as they were and
\* issues no request.
C2_SingleExchange ==
    /\ Len(calls) <= 1
    /\ calls # <<>> => isProcessing
    /\ (event.kind = "sendMessage" /\ event.wasProcessing) =>
          /\ chatHistory = event.before
          /\ display = event.domBefore
          /\ Len(requests) = event.sent

\* a submission with text, made while a stream is being read, returned
C2_Witness ==
    /\ event.kind = "sendMessage"
    /\ event.wasProcessing
    /\ event.message # <<>>
    /\ Len(calls) = 1
    /\ calls[1].pc = "read"
    /\ calls[1].pos > 0

\* C3: an accepted submission appends exactly its user Message to
\* chatHistory; nothing more is appended while the exchange runs; and a
\* stream read to its end appends exactly one assistant Message after it,
\* with the text assembled, empty when the stream held no delta.
C3_OneUserOneAssistant ==
    /\ (event.kind = "sendMessage" /\ Accepted(event)) =>
          chatHistory = event.before \o <<UserTurn(event)>>
    /\ \A i \in 1..Len(calls) :
          chatHistory = calls[i].before \o <<UserTurn(calls[i])>>
    /\ event.kind = "done" =>
          chatHistory = event.before \o
              <<UserTurn(event),
                [role |-> "assistant", content |-> event.responseText]>>

\* an exchange whose stream ended without any delta
C3_Witness ==
    /\ event.kind = "done"
    /\ event.updates = <<>>
    /\ chatHistory[Len(chatHistory)] = [role |-> "assistant", content |-> <<>>]
    /\ chatHistory[Len(chatHistory) - 1].role = "user"

\* the `response` member of a line, the empty text when it has none
ResponseOf(line) ==
    LET v == JSONparse(line)
    IN  IF v.type = "object" /\ v.hasResponse THEN v.response ELSE <<>>

RECURSIVE ConcatResponses(_)
ConcatResponses(lines) ==
    IF lines = <<>>
    THEN <<>>
    ELSE ResponseOf(Head(lines)) \o ConcatResponses(Tail(lines))

\* C4: when a stream was read to its end, the content of the assistant
\* Message pushed to chatHistory is the concatenation, in the order received,
\* of the `response` members of the lines JSON.parse accepted.
C4_ContentIsConcatenation ==
    event.kind = "done" =>
        chatHistory[Len(chatHistory)] =
            [role |-> "assistant", content |-> ConcatResponses(event.parsed)]

\* two deltas arrived, among lines that were parsed and carry none
C4_Witness ==
    /\ event.kind = "done"
    /\ Len(event.updates) = 2
    /\ Len(event.parsed) > 2
    /\ chatHistory[Len(chatHistory)].content = event.updates[2]

HasDelta(line) == ResponseOf(line) # <<>>

\* the locals of the loop of invocation c had its whole body come as one chunk
OneChunk(c) ==
    ProcessChunk([c EXCEPT !.pos = 0, !.pending = <<>>, !.st = NewAssembler],
                 c.body)

\* C5: however the bytes of a body are cut into chunks, the text assembled
\* and the texts shown on the way are the same; stated against the cut into
\* one chunk: when the last byte has arrived, responseText and the values
\* textContent took are those the body gives as a single chunk.
C5_ChunkingInvariance ==
    \A i \in 1..Len(calls) :
        (calls[i].pc = "read" /\ calls[i].pos = Len(calls[i].body)) =>
            /\ calls[i].st.responseText = OneChunk(calls[i]).st.responseText
            /\ calls[i].st.updates = OneChunk(calls[i]).st.updates

\* the lines of the chunk that takes invocation c to c2
LinesBetween(c, c2) ==
    split(decode(c.pending, SubSeq(c.body, c.pos + 1, c2.pos)).text)

\* C6: a line JSON.parse rejects and a line without a `response` member are
\* skipped: a chunk adds to responseText the `response` members of its other
\* lines and nothing else, updates the assistant element once for each of
\* them and touches nothing else of the page, and the exchange goes on to
\* the next read; no exchange fails on a line.
C6_BadLinesAreSkipped ==
    [][/\ event'.kind # "lineThrew"
       /\ event'.kind = "chunk" =>
            \A i \in 1..Len(calls) :
                LET c == calls[i]
                    c2 == calls'[i]
                    lines == LinesBetween(c, c2)
                IN  /\ Len(calls') = Len(calls)
                    /\ c2.pc = "read"
                    /\ c2.st.responseText =
                           c.st.responseText \o ConcatResponses(lines)
                    /\ Len(c2.st.updates) = Len(c.st.updates)
                           + Cardinality({k \in 1..Len(lines) : HasDelta(lines[k])})
                    /\ display' = [display EXCEPT ![c.assistantMessageEl].text =
                                                      c2.st.responseText]
                    /\ chatHistory' = chatHistory
                    /\ isProcessing']_vars

\* the body with an empty object, null, a line that is no JSON and an empty
\* line between two records was read to its last byte, and both records count
C6_Witness ==
    /\ event.kind = "chunk"
    /\ Len(calls) = 1
    /\ calls[1].body = BodyMixed
    /\ calls[1].pos = Len(BodyMixed)
    /\ calls[1].st.updates = <<<<"a">>, <<"a", EAcute>>>>
    /\ Len(calls[1].st.parsed) = 4

\* C7: a response with a non-success status adds to the page, after the
\* user's turn and the empty assistant element, exactly one assistant message
\* with the fallback text, and leaves the Messages chatHistory held before
\* the submission as they were.
C7_NonSuccessStatus ==
    event.kind = "status" =>
        LET n == Len(event.domBefore)
        IN  /\ Len(display) = n + 3
            /\ SubSeq(display, 1, n) = event.domBefore
            /\ display[n + 3] = [role |-> "assistant", text |-> Fallback]
            /\ Cardinality({k \in (n + 1)..Len(display) :
                               display[k].text = Fallback}) = 1
            /\ Len(chatHistory) >= Len(event.before)
            /\ SubSeq(chatHistory, 1, Len(event.before)) = event.before

\* a second exchange answered with a non-success status, after a first one
\* that left an assistant Message
C7_Witness ==
    /\ event.kind = "status"
    /\ Len(event.before) = 3
    /\ event.before[3].role = "assistant"

\* C8: when an exchange fails, chatHistory is what it was before the
\* submission plus the one user Message: the text assembled so far is not
\* pushed.
C8_FailureCommitsNothing ==
    event.kind \in Failures =>
        chatHistory = event.before \o <<UserTurn(event)>>

\* a read rejected after a delta had been shown in the assistant element
C8_Witness ==
    /\ event.kind = "readRejected"
    /\ event.updates # <<>>
    /\ display[Len(display) - 1].text = event.responseText
    /\ chatHistory[Len(chatHistory)].role = "user"

OnlyWhiteSpace(value) == \A k \in 1..Len(value) : value[k] \in WhiteSpace

\* C9: a submission whose text is empty after trimming, with no file, issues
\* no request and leaves chatHistory, the page and isProcessing as they were.
C9_EmptySubmissionIsNoOp ==
    (event.kind = "sendMessage" /\ OnlyWhiteSpace(event.value) /\ ~event.file) =>
        /\ chatHistory = event.before
        /\ display = event.domBefore
        /\ Len(requests) = event.sent
        /\ isProcessing = event.wasProcessing
        /\ calls = <<>> <=> ~event.wasProcessing

\* a blank submitted after an exchange, with no exchange running
C9_Witness ==
    /\ event.kind = "sendMessage"
    /\ event.value = <<" ">>
    /\ ~event.file
    /\ ~event.wasProcessing
    /\ Len(chatHistory) = 3

\* the deltas among the lines parsed so far
Deltas(st) == SelectSeq(st.parsed, HasDelta)

\* C10: the assistant element is updated once for each delta, in the order
\* the deltas are received, each time with the text assembled up to that
\* delta; whenever the exchange waits for a read the element shows
\* responseText; and the two lines "Hi" and " there" in one chunk give the
\* two updates "Hi" and "Hi there".
C10_DeltasShownInOrder ==
    /\ [](\A i \in 1..Len(calls) :
            LET c == calls[i] IN
            c.pc = "read" =>
              /\ display[c.assistantMessageEl].text = c.st.responseText
              /\ Len(c.st.updates) = Len(Deltas(c.st))
              /\ \A k \in 1..Len(c.st.updates) :
                    c.st.updates[k] =
                        ConcatResponses(SubSeq(Deltas(c.st), 1, k))
              /\ c.st.updates # <<>> =>
                    c.st.updates[Len(c.st.updates)] = c.st.responseText)
    /\ [][\A i \in 1..Len(calls) :
            (/\ event'.kind = "chunk"
             /\ calls[i].body = BodyHiThere
             /\ calls[i].pos = 0
             /\ calls'[i].pos = Len(BodyHiThere)) =>
                calls'[i].st.updates =
                    << <<"H", "i">>,
                       <<"H", "i", " ", "t", "h", "e", "r", "e">> >>]_vars

\* both lines of the body arrived and the element shows "Hi there"
C10_Witness ==
    /\ event.kind = "chunk"
    /\ Len(calls) = 1
    /\ calls[1].body = BodyHiThere
    /\ calls[1].st.updates =
           << <<"H", "i">>, <<"H", "i", " ", "t", "h", "e", "r", "e">> >>
    /\ display[calls[1].assistantMessageEl].text =
           <<"H", "i", " ", "t", "h", "e", "r", "e">>

\* the places of the user Messages of history that no assistant Message follows
Unanswered(history) ==
    {k \in 1..Len(history) :
        /\ history[k].role = "user"
        /\ (k = Len(history) \/ history[k + 1].role # "assistant")}

\* C11: in every reachable state, after any sequence of exchanges that ended
\* well or failed, chatHistory holds at most one user Message that is not
\* followed by an assistant Message.
C11_OneUnansweredUserTurn ==
    Cardinality(Unanswered(chatHistory)) <= 1

\* C12: chatHistory is append-only.  Every step leaves it as it was or
\* appends exactly one Message at its end; the only steps that append are an
\* accepted submission (a user Message) and a stream read to its end (an
\* assistant Message); no Message is ever removed, moved or modified, so the
\* greeting stays the first element.
C12_AppendOnly ==
    /\ [](chatHistory[1] = [role |-> "assistant", content |-> Greeting])
    /\ [][/\ \/ chatHistory' = chatHistory
             \/ /\ Len(chatHistory') = Len(chatHistory) + 1
                /\ SubSeq(chatHistory', 1, Len(chatHistory)) = chatHistory
          /\ chatHistory' # chatHistory =>
                \/ /\ event'.kind = "sendMessage"
                   /\ Accepted(event')
                   /\ chatHistory'[Len(chatHistory')].role = "user"
                \/ /\ event'.kind = "done"
                   /\ chatHistory'[Len(chatHistory')].role = "assistant"]_vars

\* two exchanges were read to their ends: the greeting and two pairs
C12_Witness ==
    /\ event.kind = "done"
    /\ Len(chatHistory) = 5
    /\ chatHistory[1].content = Greeting
    /\ SubSeq(chatHistory, 1, 4) = event.before \o <<UserTurn(event)>>

\* what the guard answers for every text or file the controls can hold
AcceptsSubmissions ==
    \A in \in InputValues :
        (trim(in.value) # <<>> \/ in.file) =>
            ~Guard(trim(in.value), in.file, isProcessing)

RejectsSubmissions ==
    \A in \in InputValues : Guard(trim(in.value), in.file, isProcessing)

\* C13: isProcessing is never left set for ever.  When the fetch and every
\* read an exchange awaits settle, every accepted submission is followed by a
\* state in which isProcessing is false and a submission is accepted again.
\* Nothing but the end of the exchange clears the flag (there is no timeout
\* and no cancellation): while an invocation waits, the flag is set and every
\* submission is rejected.
C13_FlagEventuallyCleared ==
    /\ (event.kind = "sendMessage" /\ Accepted(event) /\ isProcessing)
           ~> (~isProcessing /\ calls = <<>> /\ AcceptsSubmissions)
    /\ [](calls # <<>> => isProcessing /\ RejectsSubmissions)
    /\ [][isProcessing /\ ~isProcessing' => event'.kind \in Terminations]_vars

\* a second submission was accepted after the first exchange had ended
C13_Witness ==
    /\ event.kind = "sendMessage"
    /\ Accepted(event)
    /\ event.sent = 1
    /\ Len(event.before) >= 2
    /\ isProcessing

\* the number of user Messages in history
UserTurns(history) ==
    Cardinality({k \in 1..Len(history) : history[k].role = "user"})

\* C14: an accepted submission issues exactly one request and no step of its
\* exchange issues another, however the exchange ends (no retry after a
\* failure); a rejected submission issues none.  The request is multipart,
\* with the parts `messages` and `image`, exactly when a file was attached,
\* and a JSON document with the messages otherwise.
C14_OneRequestPerSubmission ==
    /\ Len(requests) = UserTurns(chatHistory)
    /\ \A i \in 1..Len(calls) : Len(requests) = calls[i].sent + 1
    /\ (event.kind = "sendMessage" /\ ~Accepted(event)) =>
          Len(requests) = event.sent
    /\ (event.kind \in Terminations \cup {"sendMessage", "read", "chunk"}
          /\ Accepted(event)) =>
          /\ Len(requests) = event.sent + 1
          /\ requests[event.sent + 1].encoding =
                 (IF event.file THEN "multipart" ELSE "json")
          /\ requests[event.sent + 1].parts =
                 (IF event.file THEN {"messages", "image"} ELSE {"messages"})

\* a second exchange, of a text with a file, failed after the one request
\* that carried both
C14_Witness ==
    /\ event.kind \in Failures
    /\ event.file
    /\ event.message # <<>>
    /\ event.sent = 1
    /\ Len(requests) = 2
    /\ requests[2].encoding = "multipart"
    /\ requests[1].encoding = "json"

\* the text that has arrived for invocation c after the last newline: the
\* line the chunks so far left unfinished
Carry(c) ==
    LET ends == {k \in 1..c.pos : c.body[k] = "\n"}
        from == IF ends = {} THEN 0
                ELSE CHOOSE k \in ends : \A j \in ends : j <= k
    IN  decode(<<>>, SubSeq(c.body, from + 1, c.pos)).text

Rejected(line) == JSONparse(line).type = "SyntaxError"

\* C15: the lines of a chunk are parsed on their own and nothing is carried
\* from one chunk to the next.  When a chunk ends inside a record, so that
\* JSON.parse rejects what came before the cut and what comes after it, both
\* parts are dropped: the chunk adds the `response` members of its other
\* lines only.  The body made of one record gives its text when the record
\* comes whole in the first chunk and the empty text otherwise, and the
\* exchange ends as one read to its end, with that text pushed.
C15_NoCarryOver ==
    [][\A i \in 1..Len(calls) :
          LET c == calls[i] IN
          /\ event'.kind = "chunk" =>
                LET c2 == calls'[i]
                    lines == LinesBetween(c, c2)
                IN  /\ (Carry(c) # <<>> /\ Rejected(Carry(c))
                          /\ Rejected(lines[1])) =>
                          /\ c2.st.responseText =
                                 c.st.responseText \o ConcatResponses(Tail(lines))
                          /\ Len(c2.st.updates) = Len(c.st.updates)
                                 + Cardinality({k \in 2..Len(lines) :
                                                   HasDelta(lines[k])})
                    /\ c.body = BodyOne =>
                          c2.st.responseText =
                              (IF c.pos = 0 /\ c2.pos >= Len(Record(<<"a">>))
                               THEN <<"a">>
                               ELSE c.st.responseText)
          /\ (c.pc = "read" /\ c.pos = Len(c.body)) =>
                event'.kind \in {"done", "readRejected"}
          /\ event'.kind = "done" =>
                chatHistory' = Append(chatHistory,
                    [role |-> "assistant", content |-> c.st.responseText])]_vars

\* the body of one record has arrived to its last byte, cut inside the
\* record: no line was parsed and responseText is empty
C15_Witness ==
    /\ Len(calls) = 1
    /\ calls[1].body = BodyOne
    /\ calls[1].pos = Len(BodyOne)
    /\ calls[1].st.parsed = <<>>
    /\ calls[1].st.responseText = <<>>
    /\ event.kind = "chunk"

\* C16: the messages of a request are the whole of chatHistory, in order, as
\* it is when the request is sent: the greeting first, every Message pushed
\* since (the user Messages of exchanges that failed among them), the user
\* Message of the submission last, and no Message with the role system.
C16_RequestCarriesConversation ==
    /\ \A k \in 1..Len(requests) :
          LET m == requests[k].messages
          IN  /\ m # <<>>
              /\ m[1] = [role |-> "assistant", content |-> Greeting]
              /\ m[Len(m)].role = "user"
              /\ \A j \in 1..Len(m) : m[j].role # "system"
              /\ Len(m) <= Len(chatHistory)
              /\ m = SubSeq(chatHistory, 1, Len(m))
    /\ \A i \in 1..Len(calls) :
          /\ requests[calls[i].sent + 1].messages =
                 calls[i].before \o <<UserTurn(calls[i])>>
          /\ requests[calls[i].sent + 1].messages = chatHistory
    /\ (event.kind = "sendMessage" /\ Accepted(event)) =>
          /\ requests[Len(requests)].messages =
                 event.before \o <<UserTurn(event)>>
          /\ requests[Len(requests)].messages = chatHistory

\* the request of a submission made after an exchange that failed carries
\* the user Message of that exchange before its own
C16_Witness ==
    /\ event.kind = "sendMessage"
    /\ Accepted(event)
    /\ Len(requests) = 2
    /\ Len(requests[2].messages) = 3
    /\ requests[2].messages[2].role = "user"
    /\ requests[2].messages[3] = UserTurn(event)

\* the element addMessageToChat added for the user's turn of the invocation
\* event describes
UserTurnShown == display[Len(event.domBefore) + 1]

\* C17: for every accepted submission, with a file or without, the text of
\* the user's turn on the page equals the content of the user Message pushed
\* to chatHistory (a submission of a file alone included).
C17_ShownTextEqualsContent ==
    (event.kind = "sendMessage" /\ Accepted(event)) =>
        /\ chatHistory[Len(chatHistory)] = UserTurn(event)
        /\ UserTurnShown = [role |-> "user", text |-> event.message]

\* C17, amended: for every accepted submission the user Message pushed to
\* chatHistory holds the trimmed text, and the user's turn is added to the
\* page in the same step, as HTML made of that text, followed when a file
\* is attached by "[Image attached]" (on a new line after the text, alone
\* when there is no text).  The text on the page equals the content of the
\* Message when no file is attached and the text holds no markup.
C17_ShownTextIsContentAndMarker ==
    (event.kind = "sendMessage" /\ Accepted(event)) =>
        LET content == chatHistory[Len(chatHistory)].content
            html == IF ~event.file THEN content
                    ELSE IF content = <<>> THEN ImageAttached
                    ELSE content \o <<"\n">> \o ImageAttached
        IN  /\ chatHistory[Len(chatHistory)] = UserTurn(event)
            /\ Len(display) = Len(event.domBefore) + 2
            /\ UserTurnShown.role = "user"
            /\ UserTurnShown.text = SelectSeq(html, IsText)
            /\ (~event.file /\ \A k \in 1..Len(content) : IsText(content[k]))
                  => UserTurnShown.text = content

\* a text with a tag was submitted with a file: the page shows the text
\* without the tag and the marker on the next line
C17_Witness ==
    /\ event.kind = "sendMessage"
    /\ Accepted(event)
    /\ event.file
    /\ chatHistory[Len(chatHistory)].content = <<"<b>", "h", "i">>
    /\ UserTurnShown.text = <<"h", "i", "\n">> \o ImageAttached

====
